---- MODULE Spec2Model ----
(***************************************************************************)
(* A model of the CHIP-8 interpreter of src/chip8/chip8.cpp: the machine   *)
(* state (struct chip8), chip8Initialize, chip8LoadRom, chip8Cycle with    *)
(* its 35 operations, the polling loop of Fx0A and the input actor that    *)
(* writes the keypad under io_mutex.                                       *)
(*                                                                         *)
(* memory and gfx are kept sparse: a function from the indices that hold   *)
(* a nonzero byte to that byte; an index outside the domain reads 0.       *)
(* Accesses past the end of an array are undefined behaviour in C++.  They *)
(* are resolved by a choice ub = [layout, byte]: with ub.layout the access *)
(* lands on the member that follows in struct chip8 as chip8.h declares it *)
(* (little-endian, natural alignment); otherwise, and past the end of the  *)
(* struct, a read yields ub.byte and a write leaves the machine alone.     *)
(***************************************************************************)
EXTENDS Integers, Sequences, FiniteSets, TLC

\* ---------------------------------------------------------------- constants
MaxMemory == 4096
NumRegisters == 16
GfxDisplayWidth == 64
GfxDisplayHeight == 32
GfxDisplaySize == GfxDisplayWidth * GfxDisplayHeight
MaxStackSize == 16
MaxNumKeys == 16
FONT_BUFFER_SIZE == 80
FONT_MEMORY_OFFSET == 80
PROGRAM_OFFSET == 512

chip8_fontset ==
  << 240, 144, 144, 144, 240,   32,  96,  32,  32, 112,
     240,  16, 240, 128, 240,  240,  16, 240,  16, 240,
     144, 144, 240,  16,  16,  240, 128, 240,  16, 240,
     240, 128, 240, 144, 240,  240,  16,  32,  64,  64,
     240, 144, 240, 144, 240,  240, 144, 240,  16, 240,
     240, 144, 240, 144, 144,  224, 144, 224, 144, 224,
     240, 128, 128, 128, 240,  224, 144, 144, 144, 224,
     240, 128, 240, 128, 240,  240, 128, 240, 128, 128 >>

\* ------------------------------------------------------------------ bounds
\* Words per ROM, completed cycles per run (and per run of the recursive
\* programs of StackRoms), keys the input actor may press.
MaxRomWords == 4
MaxCycles == 5
MaxStackCycles == 70
NumInputKeys == 2
MaxKeyRomWords == 3
MaxDrawCycles == 8
MaxOpCycles == 9

\* ------------------------------------------------------ machine arithmetic
Byte == 0..255
U8(n) == n % 256
U16(n) == n % 65536
Lo(w) == w % 256
Hi(w) == (w \div 256) % 256
SetLo(w, b) == (w \div 256) * 256 + b
SetHi(w, b) == (w \div 65536) * 65536 + b * 256 + (w % 256)

RECURSIVE BitAnd(_, _)
BitAnd(a, b) ==
  IF a = 0 \/ b = 0 THEN 0
  ELSE (IF a % 2 = 1 /\ b % 2 = 1 THEN 1 ELSE 0) + 2 * BitAnd(a \div 2, b \div 2)

RECURSIVE BitOr(_, _)
BitOr(a, b) ==
  IF a = 0 THEN b ELSE IF b = 0 THEN a
  ELSE (IF a % 2 = 1 \/ b % 2 = 1 THEN 1 ELSE 0) + 2 * BitOr(a \div 2, b \div 2)

RECURSIVE BitXor(_, _)
BitXor(a, b) ==
  IF a = 0 THEN b ELSE IF b = 0 THEN a
  ELSE (IF a % 2 # b % 2 THEN 1 ELSE 0) + 2 * BitXor(a \div 2, b \div 2)

\* operand extraction: (opcode & 0x0F00) >> 8, (opcode & 0x00F0) >> 4, ...
OpX(opcode) == (opcode \div 256) % 16
OpY(opcode) == (opcode \div 16) % 16
OpN(opcode) == opcode % 16
OpNN(opcode) == opcode % 256
OpNNN(opcode) == opcode % 4096
OpFamily(opcode) == opcode \div 4096

\* ------------------------------------------------------------ sparse arrays
Empty == [j \in {} |-> 0]
Cell(arr, i) == IF i \in DOMAIN arr THEN arr[i] ELSE 0
Store(arr, i, b) ==
  IF b = 0 THEN [j \in (DOMAIN arr) \ {i} |-> arr[j]] @@ Empty
  ELSE (i :> b) @@ arr

\* ------------------------------------------------- layout of struct chip8
OffOpcode == 0
OffMemory == 2
OffRegisters == OffMemory + MaxMemory
OffIndex == OffRegisters + NumRegisters
OffPc == OffIndex + 2
OffGfx == OffPc + 2
OffDelay == OffGfx + GfxDisplaySize
OffSound == OffDelay + 1
OffStack == OffSound + 1
OffSp == OffStack + 2 * MaxStackSize
OffKey == OffSp + 2
SizeofChip8 == OffKey + MaxNumKeys

\* the byte of the object representation at offset off < SizeofChip8
ByteAt(cpu, off) ==
  IF off < OffMemory THEN (IF off = 0 THEN Lo(cpu.opcode) ELSE Hi(cpu.opcode))
  ELSE IF off < OffRegisters THEN Cell(cpu.memory, off - OffMemory)
  ELSE IF off < OffIndex THEN cpu.registers[off - OffRegisters]
  ELSE IF off < OffPc THEN (IF off = OffIndex THEN Lo(cpu.index) ELSE Hi(cpu.index))
  ELSE IF off < OffGfx THEN (IF off = OffPc THEN Lo(cpu.pc) ELSE Hi(cpu.pc))
  ELSE IF off < OffDelay THEN Cell(cpu.gfx, off - OffGfx)
  ELSE IF off = OffDelay THEN cpu.delay_timer
  ELSE IF off = OffSound THEN cpu.sound_timer
  ELSE IF off < OffSp THEN
    LET s == (off - OffStack) \div 2
    IN  IF (off - OffStack) % 2 = 0 THEN Lo(cpu.stack[s]) ELSE Hi(cpu.stack[s])
  ELSE IF off < OffKey THEN (IF off = OffSp THEN Lo(cpu.sp) ELSE Hi(cpu.sp))
  ELSE cpu.key[off - OffKey]

\* cpu with the byte at offset off < SizeofChip8 set to b
PokeByte(cpu, off, b) ==
  IF off < OffMemory THEN
    [cpu EXCEPT !.opcode = IF off = 0 THEN SetLo(@, b) ELSE SetHi(@, b)]
  ELSE IF off < OffRegisters THEN
    [cpu EXCEPT !.memory = Store(@, off - OffMemory, b)]
  ELSE IF off < OffIndex THEN [cpu EXCEPT !.registers[off - OffRegisters] = b]
  ELSE IF off < OffPc THEN
    [cpu EXCEPT !.index = IF off = OffIndex THEN SetLo(@, b) ELSE SetHi(@, b)]
  ELSE IF off < OffGfx THEN
    [cpu EXCEPT !.pc = IF off = OffPc THEN SetLo(@, b) ELSE SetHi(@, b)]
  ELSE IF off < OffDelay THEN [cpu EXCEPT !.gfx = Store(@, off - OffGfx, b)]
  ELSE IF off = OffDelay THEN [cpu EXCEPT !.delay_timer = b]
  ELSE IF off = OffSound THEN [cpu EXCEPT !.sound_timer = b]
  ELSE IF off < OffSp THEN
    LET s == (off - OffStack) \div 2
    IN  [cpu EXCEPT !.stack[s] =
           IF (off - OffStack) % 2 = 0 THEN SetLo(@, b) ELSE SetHi(@, b)]
  ELSE IF off < OffKey THEN
    [cpu EXCEPT !.sp = IF off = OffSp THEN SetLo(@, b) ELSE SetHi(@, b)]
  ELSE [cpu EXCEPT !.key[off - OffKey] = b]

\* an access past the end of its array
OobRead(cpu, off, ub) ==
  IF ub.layout /\ off < SizeofChip8 THEN ByteAt(cpu, off) ELSE ub.byte
OobWrite(cpu, off, b, ub) ==
  IF ub.layout /\ off < SizeofChip8 THEN PokeByte(cpu, off, b) ELSE cpu

\* cpu.memory[a], cpu.gfx[i], cpu.stack[s], cpu.key[k] as the code indexes them
MemRead(cpu, a, ub) ==
  IF a < MaxMemory THEN Cell(cpu.memory, a) ELSE OobRead(cpu, OffMemory + a, ub)
MemWrite(cpu, a, b, ub) ==
  IF a < MaxMemory THEN [cpu EXCEPT !.memory = Store(@, a, b)]
  ELSE OobWrite(cpu, OffMemory + a, b, ub)
GfxRead(cpu, i, ub) ==
  IF i < GfxDisplaySize THEN Cell(cpu.gfx, i) ELSE OobRead(cpu, OffGfx + i, ub)
GfxWrite(cpu, i, b, ub) ==
  IF i < GfxDisplaySize THEN [cpu EXCEPT !.gfx = Store(@, i, b)]
  ELSE OobWrite(cpu, OffGfx + i, b, ub)
StackRead(cpu, s, ub) ==
  IF s < MaxStackSize THEN cpu.stack[s]
  ELSE OobRead(cpu, OffStack + 2 * s, ub) + 256 * OobRead(cpu, OffStack + 2 * s + 1, ub)
StackWrite(cpu, s, w, ub) ==
  IF s < MaxStackSize THEN [cpu EXCEPT !.stack[s] = w]
  ELSE OobWrite(OobWrite(cpu, OffStack + 2 * s, Lo(w), ub),
                OffStack + 2 * s + 1, Hi(w), ub)
KeyRead(cpu, k, ub) ==
  IF k < MaxNumKeys THEN cpu.key[k] ELSE OobRead(cpu, OffKey + k, ub)

\* ------------------------------------------------------------- operations
Reg(cpu, r) == cpu.registers[r]
AdvancePc(cpu, d) == [cpu EXCEPT !.pc = U16(@ + d)]

\* a clear that does not ask for the screen to be drawn again
ClearScreen_NoRedraw(cpu) == AdvancePc([cpu EXCEPT !.gfx = Empty], 2)

opcode00E0_ClearScreen(cpu) ==
  [AdvancePc([cpu EXCEPT !.gfx = Empty], 2) EXCEPT !.draw_flag = TRUE]

\* a return that resumes at the call itself: cpu.pc += 2 left out
SubroutineReturn_NoAdvance(cpu, ub) ==
  LET c1 == [cpu EXCEPT !.sp = U16(@ + 65535)]
  IN  [c1 EXCEPT !.pc = StackRead(c1, c1.sp, ub)]

\* --cpu.sp; cpu.pc = cpu.stack[cpu.sp]; cpu.pc += 2
opcode00EE_SubroutineReturn(cpu, ub) ==
  LET c1 == [cpu EXCEPT !.sp = U16(@ + 65535)]
      c2 == [c1 EXCEPT !.pc = StackRead(c1, c1.sp, ub)]
  IN  AdvancePc(c2, 2)

\* a jump that lands one byte after its target
Goto_NextByte(cpu, opcode) == [cpu EXCEPT !.pc = OpNNN(opcode) + 1]

opcode1NNN_Goto(cpu, opcode) == [cpu EXCEPT !.pc = OpNNN(opcode)]

\* cpu.stack[cpu.sp] = cpu.pc; ++cpu.sp; cpu.pc = opcode & 0x0FFF
opcode2NNN_Subroutine(cpu, opcode, ub) ==
  LET c1 == StackWrite(cpu, cpu.sp, cpu.pc, ub)
      c2 == [c1 EXCEPT !.sp = U16(@ + 1)]
  IN  [c2 EXCEPT !.pc = OpNNN(opcode)]

opcode3XNN_BranchIfEqToVal(cpu, opcode) ==
  IF Reg(cpu, OpX(opcode)) = OpNN(opcode) THEN AdvancePc(cpu, 4) ELSE AdvancePc(cpu, 2)

opcode4XNN_BranchIfNEq(cpu, opcode) ==
  IF Reg(cpu, OpX(opcode)) # OpNN(opcode) THEN AdvancePc(cpu, 4) ELSE AdvancePc(cpu, 2)

opcode5XYN_BranchIfEqReg(cpu, opcode) ==
  IF Reg(cpu, OpX(opcode)) = Reg(cpu, OpY(opcode))
  THEN AdvancePc(cpu, 4) ELSE AdvancePc(cpu, 2)

opcode6XNN_SetReg(cpu, opcode) ==
  AdvancePc([cpu EXCEPT !.registers[OpX(opcode)] = OpNN(opcode)], 2)

\* an addition that reports its carry in VF
AddRegNoCarry_SetsCarry(cpu, opcode) ==
  LET x == OpX(opcode)
      c1 == [cpu EXCEPT !.registers[15] =
               IF Reg(cpu, x) + OpNN(opcode) > 255 THEN 1 ELSE 0]
  IN  AdvancePc([c1 EXCEPT !.registers[x] = U8(Reg(cpu, x) + OpNN(opcode))], 2)

opcode7XNN_AddRegNoCarry(cpu, opcode) ==
  AdvancePc([cpu EXCEPT !.registers[OpX(opcode)] = U8(@ + OpNN(opcode))], 2)

opcode8XY0_SetReg(cpu, opcode) ==
  AdvancePc([cpu EXCEPT !.registers[OpX(opcode)] = Reg(cpu, OpY(opcode))], 2)

opcode8XY1_RegisterOrEq(cpu, opcode) ==
  AdvancePc([cpu EXCEPT !.registers[OpX(opcode)] = BitOr(@, Reg(cpu, OpY(opcode)))], 2)

opcode8XY2_RegisterAndEq(cpu, opcode) ==
  AdvancePc([cpu EXCEPT !.registers[OpX(opcode)] = BitAnd(@, Reg(cpu, OpY(opcode)))], 2)

opcode8XY3_RegisterXorEq(cpu, opcode) ==
  AdvancePc([cpu EXCEPT !.registers[OpX(opcode)] = BitXor(@, Reg(cpu, OpY(opcode)))], 2)

\* an addition whose carry test is off by one: Vy >= 0xFF - Vx
AddRegCarry_CarryAt255(cpu, opcode) ==
  LET x == OpX(opcode)
      y == OpY(opcode)
      c1 == [cpu EXCEPT !.registers[15] =
               IF Reg(cpu, y) >= U8(255 - Reg(cpu, x)) THEN 1 ELSE 0]
  IN  AdvancePc([c1 EXCEPT !.registers[x] = U8(@ + Reg(c1, y))], 2)

\* the flag is written first; the sum then reads the registers again
opcode8XY4_AddRegCarry(cpu, opcode) ==
  LET x == OpX(opcode)
      y == OpY(opcode)
      c1 == [cpu EXCEPT !.registers[15] =
               IF Reg(cpu, y) > U8(255 - Reg(cpu, x)) THEN 1 ELSE 0]
  IN  AdvancePc([c1 EXCEPT !.registers[x] = U8(@ + Reg(c1, y))], 2)

\* a subtraction that reports a borrow for equal operands: Vy >= Vx
SubEqRegCarry_BorrowAtEqual(cpu, opcode) ==
  LET x == OpX(opcode)
      y == OpY(opcode)
      c1 == [cpu EXCEPT !.registers[15] =
               IF Reg(cpu, y) >= Reg(cpu, x) THEN 0 ELSE 1]
  IN  AdvancePc([c1 EXCEPT !.registers[x] = U8(@ + 256 - Reg(c1, y))], 2)

opcode8XY5_SubEqRegCarry(cpu, opcode) ==
  LET x == OpX(opcode)
      y == OpY(opcode)
      c1 == [cpu EXCEPT !.registers[15] =
               IF Reg(cpu, y) > Reg(cpu, x) THEN 0 ELSE 1]
  IN  AdvancePc([c1 EXCEPT !.registers[x] = U8(@ + 256 - Reg(c1, y))], 2)

\* a shift that takes its operand from Vy: Vx = Vy >> 1, VF = Vy & 1
RegShiftRight_FromVy(cpu, opcode) ==
  LET x == OpX(opcode)
      y == OpY(opcode)
      c1 == [cpu EXCEPT !.registers[15] = Reg(cpu, y) % 2]
  IN  AdvancePc([c1 EXCEPT !.registers[x] = Reg(c1, y) \div 2], 2)

opcode8XY6_RegShiftRight(cpu, opcode) ==
  LET x == OpX(opcode)
      c1 == [cpu EXCEPT !.registers[15] = Reg(cpu, x) % 2]
  IN  AdvancePc([c1 EXCEPT !.registers[x] = @ \div 2], 2)

\* a reverse subtraction that subtracts the way 8xy5 does: Vx = Vx - Vy
SubRegCarry_Forward(cpu, opcode) ==
  LET x == OpX(opcode)
      y == OpY(opcode)
      c1 == [cpu EXCEPT !.registers[15] =
               IF Reg(cpu, x) > Reg(cpu, y) THEN 0 ELSE 1]
  IN  AdvancePc([c1 EXCEPT !.registers[x] = U8(@ + 256 - Reg(c1, y))], 2)

opcode8XY7_SubRegCarry(cpu, opcode) ==
  LET x == OpX(opcode)
      y == OpY(opcode)
      c1 == [cpu EXCEPT !.registers[15] =
               IF Reg(cpu, x) > Reg(cpu, y) THEN 0 ELSE 1]
  IN  AdvancePc([c1 EXCEPT !.registers[x] = U8(Reg(c1, y) + 256 - @)], 2)

\* a shift that stores the top nibble in VF: (Vx >> 4) & 0xF
RegShiftLeft_TopNibble(cpu, opcode) ==
  LET x == OpX(opcode)
      c1 == [cpu EXCEPT !.registers[15] = Reg(cpu, x) \div 16]
  IN  AdvancePc([c1 EXCEPT !.registers[x] = U8(@ * 2)], 2)

opcode8XYE_RegShiftLeft(cpu, opcode) ==
  LET x == OpX(opcode)
      c1 == [cpu EXCEPT !.registers[15] = Reg(cpu, x) \div 128]
  IN  AdvancePc([c1 EXCEPT !.registers[x] = U8(@ * 2)], 2)

\* a branch on registers that skips when they are equal
BranchIfNEqReg_Inverted(cpu, opcode) ==
  IF Reg(cpu, OpX(opcode)) = Reg(cpu, OpY(opcode))
  THEN AdvancePc(cpu, 4) ELSE AdvancePc(cpu, 2)

opcode9XY0_BranchIfNEqReg(cpu, opcode) ==
  IF Reg(cpu, OpX(opcode)) # Reg(cpu, OpY(opcode))
  THEN AdvancePc(cpu, 4) ELSE AdvancePc(cpu, 2)

opcodeANNN_SetIndex(cpu, opcode) == AdvancePc([cpu EXCEPT !.index = OpNNN(opcode)], 2)

\* cpu.registers[0] + opcode & 0xFFF: + binds tighter than &
opcodeBNNN_JumpToAddr(cpu, opcode) ==
  [cpu EXCEPT !.pc = BitAnd(Reg(cpu, 0) + opcode, 4095)]

\* (rand() % 256) & (opcode & 0xFF)
opcodeCXNN_Rand(cpu, opcode, rnd) ==
  AdvancePc([cpu EXCEPT !.registers[OpX(opcode)] = BitAnd(rnd % 256, OpNN(opcode))], 2)

\* a pixel loop that sets the cell of a set sprite bit instead of flipping it
DrawPixel_Sets(cpu, posx, posy, y, x, pixel, ub) ==
  LET at == posx + x + (posy + y) * GfxDisplayWidth
  IN  IF (pixel \div (2 ^ (7 - x))) % 2 = 1
      THEN LET c1 == IF GfxRead(cpu, at, ub) = 1
                     THEN [cpu EXCEPT !.registers[15] = 1] ELSE cpu
           IN  GfxWrite(c1, at, 1, ub)
      ELSE cpu

\* a pixel loop that wraps a column past the right edge onto the same row
DrawPixel_WrapsRow(cpu, posx, posy, y, x, pixel, ub) ==
  LET at == ((posx + x) % GfxDisplayWidth) + (posy + y) * GfxDisplayWidth
  IN  IF (pixel \div (2 ^ (7 - x))) % 2 = 1
      THEN LET hit == IF GfxRead(cpu, at, ub) = 1
                      THEN [cpu EXCEPT !.registers[15] = 1] ELSE cpu
           IN  GfxWrite(hit, at, BitXor(GfxRead(hit, at, ub), 1), ub)
      ELSE cpu

\* a pixel loop that flips the cells and never reports a collision
DrawPixel_NoCollision(cpu, posx, posy, y, x, pixel, ub) ==
  LET at == posx + x + (posy + y) * GfxDisplayWidth
  IN  IF (pixel \div (2 ^ (7 - x))) % 2 = 1
      THEN GfxWrite(cpu, at, BitXor(GfxRead(cpu, at, ub), 1), ub)
      ELSE cpu

\* the body of the inner loop: column x of row y, whose sprite byte is pixel
DrawPixel(cpu, posx, posy, y, x, pixel, ub) ==
  LET at == posx + x + (posy + y) * GfxDisplayWidth
  IN  IF (pixel \div (2 ^ (7 - x))) % 2 = 1
      THEN LET c1 == IF GfxRead(cpu, at, ub) = 1
                     THEN [cpu EXCEPT !.registers[15] = 1] ELSE cpu
           IN  GfxWrite(c1, at, BitXor(GfxRead(c1, at, ub), 1), ub)
      ELSE cpu

RECURSIVE DrawRow(_, _, _, _, _, _, _)
DrawRow(cpu, posx, posy, y, x, pixel, ub) ==
  IF x >= 8 THEN cpu
  ELSE LET c1 == DrawPixel(cpu, posx, posy, y, x, pixel, ub)
       IN  \* a column that changes nothing goes on from the same machine
           IF c1 = cpu THEN DrawRow(cpu, posx, posy, y, x + 1, pixel, ub)
           ELSE DrawRow(c1, posx, posy, y, x + 1, pixel, ub)

\* the outer loop: the sprite byte of a row is read once, before its columns
RECURSIVE DrawLoop(_, _, _, _, _, _)
DrawLoop(cpu, posx, posy, height, y, ub) ==
  IF y >= height THEN cpu
  ELSE LET c1 == DrawRow(cpu, posx, posy, y, 0, MemRead(cpu, cpu.index + y, ub), ub)
       IN  IF c1 = cpu THEN DrawLoop(cpu, posx, posy, height, y + 1, ub)
           ELSE DrawLoop(c1, posx, posy, height, y + 1, ub)

\* a draw that does not reset VF before it looks for collisions
Draw_KeepsFlag(cpu, opcode, ub) ==
  LET c2 == DrawLoop(cpu, Reg(cpu, OpX(opcode)), Reg(cpu, OpY(opcode)),
                     OpN(opcode), 0, ub)
  IN  [AdvancePc(c2, 2) EXCEPT !.draw_flag = TRUE]

opcodeDXYN_Draw(cpu, opcode, ub) ==
  LET posx == Reg(cpu, OpX(opcode))
      posy == Reg(cpu, OpY(opcode))
      height == OpN(opcode)
      c1 == [cpu EXCEPT !.registers[15] = 0]
      c2 == DrawLoop(c1, posx, posy, height, 0, ub)
  IN  [AdvancePc(c2, 2) EXCEPT !.draw_flag = TRUE]

\* a skip that looks at the key numbered x, not the key numbered Vx
SkipIfKeyPressed_KeyX(cpu, opcode, ub) ==
  IF KeyRead(cpu, OpX(opcode), ub) # 0
  THEN AdvancePc(cpu, 4) ELSE AdvancePc(cpu, 2)

opcodeEX9E_SkipIfKeyPressed(cpu, opcode, ub) ==
  IF KeyRead(cpu, Reg(cpu, OpX(opcode)), ub) # 0
  THEN AdvancePc(cpu, 4) ELSE AdvancePc(cpu, 2)

opcodeEX9E_SkipIfKeyNotPressed(cpu, opcode, ub) ==
  IF KeyRead(cpu, Reg(cpu, OpX(opcode)), ub) = 0
  THEN AdvancePc(cpu, 4) ELSE AdvancePc(cpu, 2)

opcodeFX07_GetDelay(cpu, opcode) ==
  AdvancePc([cpu EXCEPT !.registers[OpX(opcode)] = cpu.delay_timer], 2)

opcodeFX15_SetDelayTimer(cpu, opcode) ==
  AdvancePc([cpu EXCEPT !.delay_timer = Reg(cpu, OpX(opcode))], 2)

opcodeFX18_SetSoundTimer(cpu, opcode) ==
  AdvancePc([cpu EXCEPT !.sound_timer = Reg(cpu, OpX(opcode))], 2)

opcodeFX1E_AddIndex(cpu, opcode) ==
  AdvancePc([cpu EXCEPT !.index = U16(@ + Reg(cpu, OpX(opcode)))], 2)

opcodeFX29_SetSpriteAddr(cpu, opcode) ==
  AdvancePc([cpu EXCEPT !.index = U16(FONT_MEMORY_OFFSET + Reg(cpu, OpX(opcode)))], 2)

\* a conversion whose middle digit is Vx / 10, not reduced modulo 10
BCD_TensUnreduced(cpu, opcode, ub) ==
  LET x == OpX(opcode)
      c1 == MemWrite(cpu, cpu.index, Reg(cpu, x) \div 100, ub)
      c2 == MemWrite(c1, c1.index + 1, U8(Reg(c1, x) \div 10), ub)
      c3 == MemWrite(c2, c2.index + 2, (Reg(c2, x) % 100) % 10, ub)
  IN  AdvancePc(c3, 2)

\* each statement reads registers[x] again, after the stores before it
opcodeFX33_BCD(cpu, opcode, ub) ==
  LET x == OpX(opcode)
      c1 == MemWrite(cpu, cpu.index, Reg(cpu, x) \div 100, ub)
      c2 == MemWrite(c1, c1.index + 1, (Reg(c1, x) \div 10) % 10, ub)
      c3 == MemWrite(c2, c2.index + 2, (Reg(c2, x) % 100) % 10, ub)
  IN  AdvancePc(c3, 2)

RECURSIVE RegDumpLoop(_, _, _, _)
RegDumpLoop(cpu, x, i, ub) ==
  IF i > x THEN cpu
  ELSE RegDumpLoop(MemWrite(cpu, cpu.index + i, Reg(cpu, i), ub), x, i + 1, ub)

\* a store that stops before Vx
RegDump_StopsBeforeVx(cpu, opcode, ub) ==
  IF OpX(opcode) = 0 THEN AdvancePc(cpu, 2)
  ELSE AdvancePc(RegDumpLoop(cpu, OpX(opcode) - 1, 0, ub), 2)

opcodeFX55_RegDump(cpu, opcode, ub) ==
  AdvancePc(RegDumpLoop(cpu, OpX(opcode), 0, ub), 2)

RECURSIVE RegLoadLoop(_, _, _, _)
RegLoadLoop(cpu, x, i, ub) ==
  IF i > x THEN cpu
  ELSE RegLoadLoop([cpu EXCEPT !.registers[i] = MemRead(cpu, cpu.index + i, ub)],
                   x, i + 1, ub)

opcodeFX65_RegLoad(cpu, opcode, ub) ==
  AdvancePc(RegLoadLoop(cpu, OpX(opcode), 0, ub), 2)

\* ------------------------------------------------- chip8Initialize, LoadRom
ZeroCpu ==
  [opcode |-> 0, memory |-> Empty, registers |-> [r \in 0..NumRegisters - 1 |-> 0],
   index |-> 0, pc |-> 0, gfx |-> Empty, delay_timer |-> 0, sound_timer |-> 0,
   stack |-> [s \in 0..MaxStackSize - 1 |-> 0], sp |-> 0,
   key |-> [k \in 0..MaxNumKeys - 1 |-> 0], draw_flag |-> FALSE]

\* the font loop: cpu.memory[i + FONT_MEMORY_OFFSET] = chip8_fontset[i]
LoadFont(memory) ==
  LET font == {FONT_MEMORY_OFFSET + i : i \in 0..FONT_BUFFER_SIZE - 1}
      byte(a) == IF a \in font THEN chip8_fontset[a - FONT_MEMORY_OFFSET + 1]
                 ELSE Cell(memory, a)
  IN  [a \in {j \in (DOMAIN memory) \cup font : byte(j) # 0} |-> byte(a)]

\* an initialisation that leaves the registers as they were
Initialize_KeepsRegisters(cpu) ==
  [cpu EXCEPT !.pc = PROGRAM_OFFSET, !.opcode = 0, !.index = 0, !.sp = 0,
              !.draw_flag = FALSE, !.gfx = Empty,
              !.stack = [s \in 0..MaxStackSize - 1 |-> 0],
              !.memory = LoadFont(Empty),
              !.key = [k \in 0..MaxNumKeys - 1 |-> 0],
              !.delay_timer = 0, !.sound_timer = 0]

chip8Initialize(cpu) ==
  LET c1 == [cpu EXCEPT !.pc = PROGRAM_OFFSET, !.opcode = 0, !.index = 0, !.sp = 0,
                        !.draw_flag = FALSE]
      c2 == [c1 EXCEPT !.gfx = Empty,
                       !.stack = [s \in 0..MaxStackSize - 1 |-> 0],
                       !.registers = [r \in 0..NumRegisters - 1 |-> 0],
                       !.memory = Empty,
                       !.key = [k \in 0..MaxNumKeys - 1 |-> 0]]
      c3 == [c2 EXCEPT !.memory = LoadFont(@)]
  IN  [c3 EXCEPT !.delay_timer = 0, !.sound_timer = 0]

\* input.read(&cpu.memory[PROGRAM_OFFSET], len): rom is the file, a sequence
\* of bytes; no length check is made.  ReadInto stores the bytes from the
\* i-th on one by one, ReadBlock the first n, which fit into memory, at once.
RECURSIVE ReadInto(_, _, _, _)
ReadInto(cpu, rom, i, ub) ==
  IF i > Len(rom) THEN cpu
  ELSE ReadInto(MemWrite(cpu, PROGRAM_OFFSET + i - 1, rom[i], ub), rom, i + 1, ub)

\* a copy that leaves out the last byte of the block
ReadBlock_DropsLastByte(memory, rom, n) ==
  LET dst == {PROGRAM_OFFSET + i - 1 : i \in 1..n - 1}
      byte(a) == IF a \in dst THEN rom[a - PROGRAM_OFFSET + 1] ELSE Cell(memory, a)
  IN  [a \in {j \in (DOMAIN memory) \cup dst : byte(j) # 0} |-> byte(a)]

ReadBlock(memory, rom, n) ==
  LET dst == {PROGRAM_OFFSET + i - 1 : i \in 1..n}
      byte(a) == IF a \in dst THEN rom[a - PROGRAM_OFFSET + 1] ELSE Cell(memory, a)
  IN  [a \in {j \in (DOMAIN memory) \cup dst : byte(j) # 0} |-> byte(a)]

chip8LoadRom(cpu, rom, ub) ==
  LET room == MaxMemory - PROGRAM_OFFSET
      n == IF Len(rom) < room THEN Len(rom) ELSE room
      c1 == [cpu EXCEPT !.memory = ReadBlock(@, rom, n)]
  IN  ReadInto(c1, rom, n + 1, ub)

\* ------------------------------------------------------------- chip8Cycle
\* cpu.memory[cpu.pc] << 8 | cpu.memory[cpu.pc + 1]
Fetch(cpu, ub) == MemRead(cpu, cpu.pc, ub) * 256 + MemRead(cpu, cpu.pc + 1, ub)

IsWaitForKey(opcode) == OpFamily(opcode) = 15 /\ OpNN(opcode) = 10

\* the words for which the switch reaches printf("Unknown opcode"); return
ReportsUnknown(opcode) ==
  \/ OpFamily(opcode) = 0 /\ OpN(opcode) \notin {0, 14}
  \/ OpFamily(opcode) = 8 /\ OpN(opcode) \notin {0, 1, 2, 3, 4, 5, 6, 7, 14}

\* the keypad is read by the operation the switch selects (Fx0A apart)
ReadsKeypad(opcode) == OpFamily(opcode) = 14 /\ OpN(opcode) \in {14, 1}

\* the switch of chip8Cycle for a word it does not report unknown; the two
\* inner switches of the families 0xE and 0xF have no default and fall out
Dispatch(cpu, opcode, rnd, ub) ==
  LET f == OpFamily(opcode)
      n == OpN(opcode)
      nn == OpNN(opcode)
  IN  CASE f = 0 -> IF n = 0 THEN opcode00E0_ClearScreen(cpu)
                    ELSE opcode00EE_SubroutineReturn(cpu, ub)
        [] f = 1 -> opcode1NNN_Goto(cpu, opcode)
        [] f = 2 -> opcode2NNN_Subroutine(cpu, opcode, ub)
        [] f = 3 -> opcode3XNN_BranchIfEqToVal(cpu, opcode)
        [] f = 4 -> opcode4XNN_BranchIfNEq(cpu, opcode)
        [] f = 5 -> opcode5XYN_BranchIfEqReg(cpu, opcode)
        [] f = 6 -> opcode6XNN_SetReg(cpu, opcode)
        [] f = 7 -> opcode7XNN_AddRegNoCarry(cpu, opcode)
        [] f = 8 -> CASE n = 0 -> opcode8XY0_SetReg(cpu, opcode)
                      [] n = 1 -> opcode8XY1_RegisterOrEq(cpu, opcode)
                      [] n = 2 -> opcode8XY2_RegisterAndEq(cpu, opcode)
                      [] n = 3 -> opcode8XY3_RegisterXorEq(cpu, opcode)
                      [] n = 4 -> opcode8XY4_AddRegCarry(cpu, opcode)
                      [] n = 5 -> opcode8XY5_SubEqRegCarry(cpu, opcode)
                      [] n = 6 -> opcode8XY6_RegShiftRight(cpu, opcode)
                      [] n = 7 -> opcode8XY7_SubRegCarry(cpu, opcode)
                      [] OTHER -> opcode8XYE_RegShiftLeft(cpu, opcode)
        [] f = 9 -> opcode9XY0_BranchIfNEqReg(cpu, opcode)
        [] f = 10 -> opcodeANNN_SetIndex(cpu, opcode)
        [] f = 11 -> opcodeBNNN_JumpToAddr(cpu, opcode)
        [] f = 12 -> opcodeCXNN_Rand(cpu, opcode, rnd)
        [] f = 13 -> opcodeDXYN_Draw(cpu, opcode, ub)
        [] f = 14 -> IF n = 14 THEN opcodeEX9E_SkipIfKeyPressed(cpu, opcode, ub)
                     ELSE IF n = 1 THEN opcodeEX9E_SkipIfKeyNotPressed(cpu, opcode, ub)
                     ELSE cpu
        [] OTHER -> CASE nn = 7 -> opcodeFX07_GetDelay(cpu, opcode)
                      [] nn = 21 -> opcodeFX15_SetDelayTimer(cpu, opcode)
                      [] nn = 24 -> opcodeFX18_SetSoundTimer(cpu, opcode)
                      [] nn = 30 -> opcodeFX1E_AddIndex(cpu, opcode)
                      [] nn = 41 -> opcodeFX29_SetSpriteAddr(cpu, opcode)
                      [] nn = 51 -> opcodeFX33_BCD(cpu, opcode, ub)
                      [] nn = 85 -> opcodeFX55_RegDump(cpu, opcode, ub)
                      [] nn = 101 -> opcodeFX65_RegLoad(cpu, opcode, ub)
                      [] OTHER -> cpu

\* //update timers
UpdateTimers(cpu) ==
  LET c1 == IF cpu.delay_timer > 0 THEN [cpu EXCEPT !.delay_timer = @ - 1] ELSE cpu
  IN  IF c1.sound_timer > 0 THEN [c1 EXCEPT !.sound_timer = @ - 1] ELSE c1

\* a wait that stores the key and does not step past the instruction
WaitForKeyDone_NoAdvance(cpu, opcode, key) ==
  [cpu EXCEPT !.registers[OpX(opcode)] = key]

\* the tail of opcodeFX0A_WaitForKey, once the loop has left with key
WaitForKeyDone(cpu, opcode, key) ==
  AdvancePc([cpu EXCEPT !.registers[OpX(opcode)] = key], 2)

\* a cycle that steps over a word it reports unknown
Cycle_SkipsUnknown(cpu, opcode, rnd, ub) ==
  IF ReportsUnknown(opcode) THEN AdvancePc(cpu, 2)
  ELSE UpdateTimers(Dispatch(cpu, opcode, rnd, ub))

\* a cycle that updates the timers before it runs the instruction
Cycle_TimersFirst(cpu, opcode, rnd, ub) ==
  IF ReportsUnknown(opcode) THEN cpu
  ELSE Dispatch(UpdateTimers(cpu), opcode, rnd, ub)

\* one completed or aborted call of chip8Cycle for a word other than Fx0A
chip8Cycle(cpu, opcode, rnd, ub) ==
  IF ReportsUnknown(opcode) THEN cpu
  ELSE UpdateTimers(Dispatch(cpu, opcode, rnd, ub))

\* the beep signals the timer update sends for the machine it finds: the
\* branch for sound_timer == 1 holds a TODO comment and no statement
BeepSignals(cpu) == IF cpu.sound_timer > 0 /\ cpu.sound_timer = 1 THEN 0 ELSE 0

\* sound_timer as the timer update of a cycle finds it, and the beeps it sends
SoundAtUpdate(cpu, opcode, rnd, ub) ==
  IF ReportsUnknown(opcode) THEN 0 ELSE Dispatch(cpu, opcode, rnd, ub).sound_timer
BeepsOfCycle(cpu, opcode, rnd, ub) ==
  IF ReportsUnknown(opcode) THEN 0 ELSE BeepSignals(Dispatch(cpu, opcode, rnd, ub))

\* a scan that takes the first entry for a pressed key without testing it
ScanKeys_Untested(cpu, idx) == [got_key |-> TRUE, key |-> idx]

\* the for loop of opcodeFX0A_WaitForKey: the first idx with cpu.key[idx] != 0
RECURSIVE ScanKeys(_, _)
ScanKeys(cpu, idx) ==
  IF idx >= MaxNumKeys THEN [got_key |-> FALSE, key |-> 0]
  ELSE IF cpu.key[idx] # 0 THEN [got_key |-> TRUE, key |-> idx]
  ELSE ScanKeys(cpu, idx + 1)

\* ----------------------------------------------------------------- inputs
\* outcomes of an out-of-bounds access, values of rand() % 256
UBBytes == {0, 255}
UBChoices == [layout : BOOLEAN, byte : UBBytes]
NoUB == [layout |-> TRUE, byte |-> 0]
RandBytes == {0, 90, 255}
RandFor(opcode) == IF OpFamily(opcode) = 12 THEN RandBytes ELSE {0}

\* a ROM file: the bytes of a sequence of instruction words, big-endian
RECURSIVE RomBytes(_)
RomBytes(words) ==
  IF words = <<>> THEN <<>>
  ELSE <<Hi(words[1]), Lo(words[1])>> \o RomBytes(Tail(words))

SeqsUpTo(pool, n) == UNION {[1..m -> pool] : m \in 1..n}

\* pools of instruction words; a ROM is a sequence over one pool
TimerDrawPool == {\H6120, \HF115, \HF129, \HD011}
TimerPool == {\H6203, \HF215, \HF218, \HF307}
UnknownPool == {\H6203, \HF215, \HE200, \HF2FF}
UndefinedPool == {\H0010, \H5011, \H8128, \H9121}
StackPool == {\H2204, \H2206, \H00EE, \H1202}
KeyPool == {\HF20A, \HE29E, \HE2A1}
KeyTimerPool == {\H6203, \HF215, \HF30A}

Roms ==
  UNION {SeqsUpTo(pool, MaxRomWords) :
           pool \in {TimerDrawPool, TimerPool, UnknownPool, UndefinedPool, StackPool,
                     KeyTimerPool}}
KeyRoms == UNION {SeqsUpTo(pool, MaxKeyRomWords) : pool \in {KeyPool, KeyTimerPool}}

\* programs that call themselves to a depth and return from it:
\* 200: V0 += 1   202: skip if V0 = depth + 1   204: call 200   206: return
RecursionDepths == {2, MaxStackSize - 1, MaxStackSize, MaxStackSize + 1}
StackRoms ==
  {<<\H7001, \H3000 + d + 1, \H2200, \H00EE>> : d \in RecursionDepths}
    \cup SeqsUpTo(StackPool, 2)

\* programs that draw twice and clear the screen:
\* V0 = vx; V1 = vy; I = idx; draw n rows; VF = 2; V0 = vx2; draw m rows; clear
DrawRoms ==
  {<<\H6000 + vx, \H6100 + vy, \HA000 + idx, \HD010 + n,
     \H6F02, \H6000 + vx2, \HD010 + m, \H00E0>> :
     <<vx, vy, idx, n, vx2, m>> \in
       {0, 5, 56, 60} \X {0, 27, 31, 32} \X {\H050, \H09B, \H200}
         \X {0, 1, 5, 15} \X {0, 4, 56} \X {1, 5}}
  \cup
  \* V0 = vx; V1 = vy; I = idx; draw n rows; V0 = vx2; draw m rows twice
  {<<\H6000 + vx, \H6100 + vy, \HA000 + idx, \HD010 + n,
     \H6000 + vx2, \HD010 + m, \HD010 + m>> :
     <<vx, vy, idx, n, vx2, m>> \in
       {0, 5, 56} \X {0, 27} \X {\H050, \H09B, \H200} \X {1, 5} \X {0, 4, 56}
         \X {0, 1, 5}}

\* programs that load two registers and run one flag-setting operation on
\* them: Vx = a; Vy = b; 8xyN with N in 4, 5, 6, 7, E
AluRoms ==
  {<<\H6000 + 256 * x + a, \H6000 + 256 * y + b, \H8000 + 256 * x + 16 * y + n>> :
     <<x, y, a, b, n>> \in
       {0, 1, 14, 15} \X {0, 1, 14, 15} \X {0, 1, 11, 127, 128, 200, 255}
         \X {0, 1, 127, 128, 200, 255} \X {4, 5, 6, 7, 14}}

\* programs that set registers up and run one operation on them:
\*   Vx = a; Vy = b; then 3xnn, 4xnn, 5xy0 or 9xy0
\*   V0 = a; jump to nnn + V0
\*   V0 = a; V1 = b; I = idx; store V0..Vx; V0 = V1 = V2 = 0xEE; load V0..Vx
\*   Vx = a; I = idx; store the decimal digits of Vx
\*   Vx = d; I = the sprite of the character in Vx
\*   Vx = a; VF = b; Vx += nn
\*   a jump or a call to an even or an odd address
\*   a call to 0x204 and the return from it, then a return on the empty stack
\*   a jump to 0x203, where the bytes read 2208: a call whose return address
\*   is odd, and at 0x208 the return
\*   V0 = 7; V1 = d; I = 0xFFF; I += V1; store V0 or its digits, or load V0
OpRoms ==
  {<<\H6000 + 256 * x + a, \H6000 + 256 * y + b,
     4096 * f + 256 * x + (IF f \in {3, 4} THEN nn ELSE 16 * y)>> :
     <<x, y, a, b, nn, f>> \in
       {0, 7, 15} \X {0, 7, 15} \X {0, 1, 255} \X {0, 1, 255} \X {0, 1, 255}
         \X {3, 4, 5, 9}}
  \cup
  {<<\H6000 + a, \HB000 + nnn>> :
     <<a, nnn>> \in {0, 2, 4, 255} \X {0, \H123, \H204, \HFFC, \HFFE, \HFFF}}
  \cup
  {<<\H6000 + a, \H6100 + b, \HA000 + idx, \HF055 + 256 * x,
     \H60EE, \H61EE, \H62EE, \HF065 + 256 * x>> :
     <<a, b, idx, x>> \in
       {0, 7, 255} \X {0, 255} \X {\H050, \H300, \HFF0, \HFFE, \HFFF}
         \X {0, 1, 2, 15}}
  \cup
  {<<\H6000 + 256 * x + a, \HA000 + idx, \HF033 + 256 * x>> :
     <<x, a, idx>> \in {0, 15} \X (0..255) \X {\H300, \HFFD, \HFFE}}
  \cup
  {<<\H6000 + 256 * x + d, \HF029 + 256 * x>> :
     <<x, d>> \in {0, 2, 15} \X (0..MaxNumKeys - 1)}
  \cup
  {<<\H6000 + 256 * x + a, \H6F00 + b, \H7000 + 256 * x + nn>> :
     <<x, a, b, nn>> \in
       {0, 7, 14} \X {0, 1, 128, 200, 255} \X {0, 1, 9} \X {0, 1, 56, 128, 255}}
  \cup
  {<<4096 * f + nnn>> : <<f, nnn>> \in {1, 2} \X {\H204, \H205, \H300, \HFFF}}
  \cup
  {<<\H2204, \H0000, \H00EE>>, <<\H1203, \H0022, \H0800, \H0000, \H00EE>>}
  \cup
  {<<\H6007, \H6100 + d, \HAFFF, \HF11E, \HF000 + nn>> :
     <<d, nn>> \in {0, 1, 21} \X {\H33, \H55, \H65}}

\* programs that test one key: Vx = k; then Ex9E or ExA1
SkipKeyRoms ==
  {<<\H6000 + 256 * x + k, \HE000 + 256 * x + nn>> :
     <<x, k, nn>> \in {0, 2, 10, 15} \X {0, 2, 10, 11, 15} \X {\H9E, \HA1}}

\* files of n bytes for chip8LoadRom: short ones, and ones that end just
\* before, at and after the last byte of memory
RomFiles ==
  {[i \in 1..n |-> (fill + i) % 256] :
     <<n, fill>> \in
       ({0, 1, 2} \cup {MaxMemory - PROGRAM_OFFSET + k : k \in {-1, 0, 1, 2, 20}})
         \X {\H12, \H60, \HFF}}

\* the keys the input actor presses: 0xA as in test::WaitForKey, and upward
InputKeys == {10 + i : i \in 0..NumInputKeys - 1}

\* ------------------------------------------------------------------ state
VARIABLES
  cpu,         \* the struct chip8 of main
  cycleCount,  \* static int cycleCount
  io_mutex,    \* static std::mutex io_mutex: "free", "cycle" or "input"
  cyclePc,     \* where the thread that calls chip8Cycle is: "idle" between
               \* calls, or in the loop of Fx0A: "lock", "scan", "sleep"
  wait,        \* opcode, got_key and key of opcodeFX0A_WaitForKey; history:
               \* the keys down at the last scan, whether a scan found none
  inputPc,     \* where the input actor is: "idle" or "locked"
  last,        \* history: the last step of the interpreter thread; for a
               \* call of chip8Cycle the word it ran and the machine before
               \* it; the mutex state at the last keypad read; sound_timer
               \* at the timer update and the beep signals sent there; the
               \* registers the last Fx55 stored; the file and the machine
               \* before it for a call of chip8LoadRom with a file
  calls        \* history: the calls (2nnn made with sp < 16) not yet returned

vars == <<cpu, cycleCount, io_mutex, cyclePc, wait, inputPc, last, calls>>

NoWait ==
  [opcode |-> 0, got_key |-> FALSE, key |-> 0, sampled |-> {}, blocked |-> FALSE]
NoRet == [addr |-> 0, sp |-> 0, valid |-> FALSE]
NoDump ==
  [valid |-> FALSE, x |-> 0, index |-> 0, registers |-> [r \in 0..NumRegisters - 1 |-> 0]]

Init ==
  /\ cpu = chip8Initialize(ZeroCpu)
  /\ cycleCount = 0
  /\ io_mutex = "free"
  /\ cyclePc = "idle"
  /\ wait = NoWait
  /\ inputPc = "idle"
  /\ last = [step |-> "init", opcode |-> 0, pre |-> ZeroCpu, keyRead |-> "none",
             ret |-> NoRet, sound |-> 0, beeps |-> 0, dump |-> NoDump,
             rom |-> <<>>]
  /\ calls = <<>>

\* operations that store through an index (Dxyn, Fx33, Fx55)
StoresIndexed(opcode) ==
  \/ OpFamily(opcode) = 13
  \/ OpFamily(opcode) = 15 /\ OpNN(opcode) \in {51, 85}

IsCall(opcode) == OpFamily(opcode) = 2
IsReturn(opcode) == OpFamily(opcode) = 0 /\ OpN(opcode) = 14

CallsAfter(c, opcode) ==
  IF IsCall(opcode)
  THEN (IF c.sp < MaxStackSize
        THEN Append(calls, [addr |-> c.pc, sp |-> c.sp, valid |-> TRUE]) ELSE <<>>)
  ELSE IF IsReturn(opcode)
  THEN (IF calls = <<>> THEN <<>> ELSE SubSeq(calls, 1, Len(calls) - 1))
  ELSE IF StoresIndexed(opcode) THEN <<>>
  ELSE calls

RetOf(opcode) ==
  IF IsReturn(opcode) /\ calls # <<>> THEN calls[Len(calls)] ELSE NoRet

\* the registers Fx55 stored and where, until memory is stored to again
DumpAfter(c, opcode) ==
  IF OpFamily(opcode) = 15 /\ OpNN(opcode) = 85
  THEN [valid |-> TRUE, x |-> OpX(opcode), index |-> c.index,
        registers |-> c.registers]
  ELSE IF StoresIndexed(opcode) THEN NoDump
  ELSE last.dump

\* main.cpp: chip8Initialize(cpu), also the reset between the tests
Initialize ==
  /\ cyclePc = "idle"
  /\ cpu' = chip8Initialize(cpu)
  /\ last' = [step |-> "init", opcode |-> 0, pre |-> ZeroCpu,
              keyRead |-> last.keyRead, ret |-> NoRet, sound |-> 0, beeps |-> 0,
              dump |-> NoDump, rom |-> <<>>]
  /\ calls' = <<>>
  /\ UNCHANGED <<cycleCount, io_mutex, wait, inputPc, cyclePc>>

\* main.cpp: chip8LoadRom(cpu, file), right after chip8Initialize
LoadRomFrom(roms) ==
  /\ cyclePc = "idle"
  /\ last.step = "init"
  /\ \E words \in roms :
       /\ cpu' = chip8LoadRom(cpu, RomBytes(words), NoUB)
       /\ last' = [step |-> "load", opcode |-> 0, pre |-> ZeroCpu,
                   keyRead |-> last.keyRead, ret |-> NoRet, sound |-> 0,
                   beeps |-> 0, dump |-> NoDump, rom |-> <<>>]
  /\ UNCHANGED <<cycleCount, io_mutex, wait, inputPc, cyclePc, calls>>

\* main.cpp: chip8LoadRom(cpu, file) with an arbitrary file
LoadFile ==
  /\ cyclePc = "idle"
  /\ last.step = "init"
  /\ \E rom \in RomFiles, ub \in UBChoices :
       /\ cpu' = chip8LoadRom(cpu, rom, ub)
       /\ last' = [step |-> "load", opcode |-> 0, pre |-> cpu,
                   keyRead |-> last.keyRead, ret |-> NoRet, sound |-> 0,
                   beeps |-> 0, dump |-> NoDump, rom |-> rom]
  /\ UNCHANGED <<cycleCount, io_mutex, wait, inputPc, cyclePc, calls>>

LoadRom == LoadRomFrom(Roms)
LoadKeyRom == LoadRomFrom(KeyRoms)
LoadStackRom == LoadRomFrom(StackRoms)
LoadAluRom == LoadRomFrom(AluRoms)
LoadDrawRom == LoadRomFrom(DrawRoms)
LoadOpRom == LoadRomFrom(OpRoms)
LoadSkipKeyRom == LoadRomFrom(SkipKeyRoms)

\* main.cpp: chip8Cycle(cpu).  Fx0A enters its polling loop; every other word
\* runs to the end of chip8Cycle in one step.
CycleWithin(limit) ==
  /\ cyclePc = "idle"
  /\ cycleCount < limit
  /\ \E ub \in UBChoices :
       LET opcode == Fetch(cpu, ub)
       IN  \E rnd \in RandFor(opcode) :
             IF IsWaitForKey(opcode)
             THEN /\ cyclePc' = "lock"
                  /\ wait' = [NoWait EXCEPT !.opcode = opcode]
                  /\ last' = [step |-> "wait", opcode |-> opcode, pre |-> cpu,
                              keyRead |-> last.keyRead, ret |-> NoRet,
                              sound |-> 0, beeps |-> 0, dump |-> last.dump,
                              rom |-> <<>>]
                  /\ UNCHANGED <<cpu, cycleCount, calls>>
             ELSE /\ cpu' = chip8Cycle(cpu, opcode, rnd, ub)
                  /\ cycleCount' = IF ReportsUnknown(opcode) THEN cycleCount
                                   ELSE cycleCount + 1
                  /\ last' = [step |-> IF ReportsUnknown(opcode) THEN "unknown"
                                       ELSE "cycle",
                              opcode |-> opcode, pre |-> cpu,
                              keyRead |-> IF ReadsKeypad(opcode) THEN io_mutex
                                          ELSE last.keyRead,
                              ret |-> RetOf(opcode),
                              sound |-> SoundAtUpdate(cpu, opcode, rnd, ub),
                              beeps |-> BeepsOfCycle(cpu, opcode, rnd, ub),
                              dump |-> DumpAfter(cpu, opcode), rom |-> <<>>]
                  /\ calls' = IF ReportsUnknown(opcode) THEN calls
                              ELSE CallsAfter(cpu, opcode)
                  /\ UNCHANGED <<cyclePc, wait>>
  /\ UNCHANGED <<io_mutex, inputPc>>

Cycle == CycleWithin(MaxCycles)
StackCycle == CycleWithin(MaxStackCycles)
DrawCycle == CycleWithin(MaxDrawCycles)
OpCycle == CycleWithin(MaxOpCycles)

\* std::lock_guard<std::mutex> lk(io_mutex) in the loop of Fx0A
WaitLock ==
  /\ cyclePc = "lock"
  /\ io_mutex = "free"
  /\ io_mutex' = "cycle"
  /\ cyclePc' = "scan"
  /\ UNCHANGED <<cpu, cycleCount, wait, inputPc, last, calls>>

\* the scan of the keypad under the lock, and the end of the lock's scope
WaitScan ==
  /\ cyclePc = "scan"
  /\ LET found == ScanKeys(cpu, 0)
     IN  wait' = [wait EXCEPT !.got_key = found.got_key, !.key = found.key,
                              !.sampled = {k \in 0..MaxNumKeys - 1 : cpu.key[k] # 0},
                              !.blocked = wait.blocked \/ ~found.got_key]
  /\ last' = [last EXCEPT !.keyRead = io_mutex]
  /\ io_mutex' = "free"
  /\ cyclePc' = "sleep"
  /\ UNCHANGED <<cpu, cycleCount, inputPc, calls>>

\* sleep_for(100ms), then the loop test; out of the loop the cycle completes
WaitSleep ==
  /\ cyclePc = "sleep"
  /\ IF wait.got_key
     THEN /\ cpu' = UpdateTimers(WaitForKeyDone(cpu, wait.opcode, wait.key))
          /\ cycleCount' = cycleCount + 1
          /\ cyclePc' = "idle"
          /\ last' = [last EXCEPT !.step = "cycle", !.pre = cpu,
                                   !.sound = cpu.sound_timer,
                                   !.beeps = BeepSignals(cpu)]
     ELSE /\ cyclePc' = "lock"
          /\ UNCHANGED <<cpu, cycleCount, last>>
  /\ UNCHANGED <<io_mutex, wait, inputPc, calls>>

\* test::WaitForKey, setInput: std::lock_guard<std::mutex> lk(io_mutex)
InputLock ==
  /\ inputPc = "idle"
  /\ io_mutex = "free"
  /\ io_mutex' = "input"
  /\ inputPc' = "locked"
  /\ UNCHANGED <<cpu, cycleCount, cyclePc, wait, last, calls>>

\* cpu.key[k] = 1, and the end of the lock's scope
InputWrite ==
  /\ inputPc = "locked"
  /\ \E k \in InputKeys : cpu' = [cpu EXCEPT !.key[k] = 1]
  /\ io_mutex' = "free"
  /\ inputPc' = "idle"
  /\ UNCHANGED <<cycleCount, cyclePc, wait, last, calls>>

\* main.cpp, after chip8Cycle: if (cpu.draw_flag) { Render(window, cpu);
\* cpu.draw_flag = false; }.  The tests call chip8Cycle without it.
Render ==
  /\ cyclePc = "idle"
  /\ cpu.draw_flag
  /\ cpu' = [cpu EXCEPT !.draw_flag = FALSE]
  /\ last' = [last EXCEPT !.step = "render"]
  /\ UNCHANGED <<cycleCount, io_mutex, cyclePc, wait, inputPc, calls>>

\* main.cpp 51: chip8Cycle(cpu), once the statements after the last call
\* are done
MainCycle ==
  /\ last.step \in {"load", "checked", "shown"}
  /\ CycleWithin(MaxDrawCycles)

\* a test of the flag that goes back to chip8Cycle without rendering
MainCheck_SkipsRender ==
  /\ cyclePc = "idle"
  /\ last.step \in {"cycle", "unknown"}
  /\ last' = [last EXCEPT !.step = "checked"]
  /\ UNCHANGED <<cpu, cycleCount, io_mutex, cyclePc, wait, inputPc, calls>>

\* main.cpp 52-53: if (cpu.draw_flag) Render(window, cpu); Render reads
\* cpu.gfx cell by cell and writes only to the window
MainCheck ==
  /\ cyclePc = "idle"
  /\ last.step \in {"cycle", "unknown"}
  /\ last' = [last EXCEPT !.step = IF cpu.draw_flag THEN "render" ELSE "checked"]
  /\ UNCHANGED <<cpu, cycleCount, io_mutex, cyclePc, wait, inputPc, calls>>

\* main.cpp 54: cpu.draw_flag = false, after Render has returned
MainClear ==
  /\ cyclePc = "idle"
  /\ last.step = "render"
  /\ cpu' = [cpu EXCEPT !.draw_flag = FALSE]
  /\ last' = [last EXCEPT !.step = "shown"]
  /\ UNCHANGED <<cycleCount, io_mutex, cyclePc, wait, inputPc, calls>>

\* the driving loop of main.cpp: no input actor runs
Next ==
  Initialize \/ LoadRom \/ Cycle \/ Render \/ WaitLock \/ WaitScan \/ WaitSleep
Spec == Init /\ [][Next]_vars

\* long runs of the programs that nest calls
StackNext == Initialize \/ LoadStackRom \/ StackCycle
StackSpec == Init /\ [][StackNext]_vars

\* one run of a drawing program
DrawNext == LoadDrawRom \/ DrawCycle \/ Render
DrawSpec == Init /\ [][DrawNext]_vars

\* the driving loop of main.cpp statement by statement, on a drawing program
MainNext == LoadDrawRom \/ MainCycle \/ MainCheck \/ MainClear
MainSpec == Init /\ [][MainNext]_vars

\* one run of an arithmetic program
AluNext == LoadAluRom \/ Cycle \/ Render
AluSpec == Init /\ [][AluNext]_vars

\* one run of a program that exercises one operation
OpNext == LoadOpRom \/ OpCycle \/ Render
OpSpec == Init /\ [][OpNext]_vars

\* one program run beside the input actor of test::WaitForKey
KeyNext ==
  LoadKeyRom \/ Cycle \/ WaitLock \/ WaitScan \/ WaitSleep \/ InputLock \/ InputWrite
KeySpec == Init /\ [][KeyNext]_vars

\* initialisations, loads of arbitrary files and short runs of them
FileNext == Initialize \/ LoadFile \/ Cycle \/ Render
FileSpec == Init /\ [][FileNext]_vars

\* one run of a key-testing program beside the input actor
SkipKeyNext == LoadSkipKeyRom \/ Cycle \/ Render \/ InputLock \/ InputWrite
SkipKeySpec == Init /\ [][SkipKeyNext]_vars

\* the polling loop is scheduled fairly and gets the mutex when it is free
\* again and again; the input actor leaves its critical section
FairKeySpec ==
  KeySpec /\ WF_vars(WaitScan) /\ WF_vars(WaitSleep) /\ SF_vars(WaitLock)
    /\ WF_vars(InputWrite)

\* ----------------------------------------------------------------- claims
RanCycle == last.step = "cycle"
Fetched == last.step \in {"cycle", "unknown"}
Dec(t) == IF t > 0 THEN t - 1 ELSE 0
IsFx(opcode, nn) == OpFamily(opcode) = 15 /\ OpNN(opcode) = nn

\* the state chip8Initialize is to leave, written out
InitialState ==
  [opcode |-> 0,
   memory |-> [a \in 80..159 |-> chip8_fontset[a - 79]],
   registers |-> [r \in 0..15 |-> 0],
   index |-> 0, pc |-> 512,
   gfx |-> [i \in {} |-> 0],
   delay_timer |-> 0, sound_timer |-> 0,
   stack |-> [s \in 0..15 |-> 0], sp |-> 0,
   key |-> [k \in 0..15 |-> 0],
   draw_flag |-> FALSE]

\* C1: chip8Initialize, called from any prior machine state, leaves one fixed
\* state: pc = 0x200, index, sp, opcode and both timers 0, the redraw flag
\* false, registers, stack, framebuffer and keypad 0, memory 0 but for the font.
C1_InitializeFixedState == last.step = "init" => cpu = InitialState

\* chip8Initialize called again after cycles that have changed the machine
C1_Witness == last.step = "init" /\ cycleCount >= 3

\* C2: across a completed cycle that does not execute Fx15 or Fx18 each timer
\* goes down by exactly 1 if it was positive and stays 0 if it was 0.
C2_TimersCountDown ==
  (RanCycle /\ ~IsFx(last.opcode, 21) /\ ~IsFx(last.opcode, 24))
    => /\ cpu.delay_timer = Dec(last.pre.delay_timer)
       /\ cpu.sound_timer = Dec(last.pre.sound_timer)

\* C3: the timers are updated after the instruction's own effect: Fx15 with
\* Vx = v > 0 ends its cycle with delay_timer = v - 1, Fx18 likewise for
\* sound_timer, and Fx07 stores the delay_timer of before the decrement.
C3_TimersAfterInstruction ==
  RanCycle =>
    LET x == OpX(last.opcode)
        v == last.pre.registers[x]
    IN  /\ (IsFx(last.opcode, 21) /\ v > 0) => cpu.delay_timer = v - 1
        /\ (IsFx(last.opcode, 24) /\ v > 0) => cpu.sound_timer = v - 1
        /\ IsFx(last.opcode, 7) => cpu.registers[x] = last.pre.delay_timer

\* Fx07 has read a running delay timer, which the same cycle then decrements
C3_Witness ==
  /\ RanCycle
  /\ IsFx(last.opcode, 7)
  /\ last.pre.delay_timer > 0
  /\ cpu.registers[OpX(last.opcode)] = last.pre.delay_timer
  /\ cpu.delay_timer = last.pre.delay_timer - 1

C5_SpInRange == cpu.sp >= 0 /\ cpu.sp <= 16

\* the instruction patterns of the operation table
IsDefinedInstruction(opcode) ==
  LET f == OpFamily(opcode)
  IN  \/ opcode \in {224, 238}
      \/ f \in {1, 2, 3, 4, 6, 7, 10, 11, 12, 13}
      \/ f \in {5, 9} /\ OpN(opcode) = 0
      \/ f = 8 /\ OpN(opcode) \in {0, 1, 2, 3, 4, 5, 6, 7, 14}
      \/ f = 14 /\ OpNN(opcode) \in {158, 161}
      \/ f = 15 /\ OpNN(opcode) \in {7, 10, 21, 24, 30, 41, 51, 85, 101}

\* C6: a cycle that fetches a word that is none of the defined instruction
\* patterns leaves pc unchanged.
C6_UndefinedKeepsPc ==
  (Fetched /\ ~IsDefinedInstruction(last.opcode)) => cpu.pc = last.pre.pc

\* C7: a cycle whose word matches no known operation is aborted before the
\* timer update: both timers keep their values.
C7_UndefinedKeepsTimers ==
  (Fetched /\ ~IsDefinedInstruction(last.opcode))
    => /\ cpu.delay_timer = last.pre.delay_timer
       /\ cpu.sound_timer = last.pre.sound_timer

\* the wait of Fx0A is in progress; no key is down; the waiting machine
Waiting == cyclePc # "idle"
AllKeysZero == \A k \in 0..MaxNumKeys - 1 : cpu.key[k] = 0
SameMachine(a, b) ==
  /\ a.pc = b.pc /\ a.registers = b.registers /\ a.index = b.index
  /\ a.stack = b.stack /\ a.sp = b.sp
  /\ a.delay_timer = b.delay_timer /\ a.sound_timer = b.sound_timer

\* C8: a cycle executing Fx0A does not complete while all 16 keypad entries
\* are 0: from a state of the wait with no key down, the next step leaves the
\* cycle in its wait, with pc, registers, index, stack and timers as they were
\* when the wait began.
C8_WaitHoldsState ==
  [][(Waiting /\ AllKeysZero)
       => (Waiting' /\ SameMachine(cpu', last.pre) /\ cycleCount' = cycleCount)]_vars

\* the loop has scanned an idle keypad and sleeps, a timer still running
C8_Witness ==
  /\ cyclePc = "sleep" /\ ~wait.got_key /\ wait.blocked /\ AllKeysZero
  /\ cpu.delay_timer > 0

\* the cycle of Fx0A has completed with the lowest key of its last scan
Lowest(S) == CHOOSE k \in S : \A j \in S : k <= j
WaitCompleted ==
  /\ RanCycle /\ IsWaitForKey(last.opcode) /\ cyclePc = "idle"
  /\ wait.sampled # {}
  /\ cpu.registers[OpX(last.opcode)] = Lowest(wait.sampled)
  /\ cpu.pc = U16(last.pre.pc + 2)

\* C9: under fair scheduling of the polling loop, once a key is down while a
\* cycle waits in Fx0A (keys stay down), the cycle eventually completes with
\* Vx = the lowest key that was down when the keypad was sampled and pc + 2.
C9_WaitCompletes == (Waiting /\ ~AllKeysZero) ~> WaitCompleted

\* a wait that found no key at first has completed on a scan with two keys down
C9_Witness == WaitCompleted /\ wait.blocked /\ Cardinality(wait.sampled) = 2

\* C10: every read of the keypad by the interpreter (Fx0A, Ex9E, ExA1) is made
\* with io_mutex held by the cycle, and every write of the input actor with
\* io_mutex held by the input actor.
C10_KeypadUnderMutex ==
  /\ last.keyRead \in {"none", "cycle"}
  /\ inputPc = "locked" => io_mutex = "input"

\* C11: a cycle whose timer update finds sound_timer = 1 (and takes it to 0)
\* sends exactly one beep signal, and a cycle whose timer update finds any
\* other value sends none.
C11_BeepAtOne == RanCycle => last.beeps = (IF last.sound = 1 THEN 1 ELSE 0)

\* the draw of the last cycle: its origin, height and sprite rows, and the
\* framebuffer indices posx + x + (posy + y) * 64 of its set sprite bits
IsDraw(opcode) == OpFamily(opcode) = 13
DrawVx == last.pre.registers[OpX(last.opcode)]
DrawVy == last.pre.registers[OpY(last.opcode)]
SpriteBit(r, b) == (Cell(last.pre.memory, last.pre.index + r) \div (2 ^ (7 - b))) % 2
DrawIndices ==
  {DrawVx + b + (DrawVy + r) * GfxDisplayWidth :
     <<r, b>> \in {rb \in (0..OpN(last.opcode) - 1) \X (0..7) :
                     SpriteBit(rb[1], rb[2]) = 1}}
DrewInBounds ==
  /\ RanCycle /\ IsDraw(last.opcode)
  /\ DrawVx <= 56 /\ DrawVy + OpN(last.opcode) <= 32
  /\ last.pre.index + OpN(last.opcode) <= MaxMemory

\* C12: Dxyn with Vx <= 56 and Vy + n <= 32 flips framebuffer cell
\* (Vx + b, Vy + r) if and only if bit b (most-significant first) of
\* memory[index + r] is set, leaves every other cell unchanged, sets the redraw
\* flag, advances pc by 2 and leaves index and memory unchanged.
C12_DrawFlipsSpriteBits ==
  DrewInBounds =>
    /\ \A i \in DrawIndices : Cell(cpu.gfx, i) = BitXor(Cell(last.pre.gfx, i), 1)
    /\ \A i \in ((DOMAIN cpu.gfx) \cup (DOMAIN last.pre.gfx)) \ DrawIndices :
         Cell(cpu.gfx, i) = Cell(last.pre.gfx, i)
    /\ cpu.draw_flag
    /\ cpu.pc = last.pre.pc + 2
    /\ cpu.index = last.pre.index /\ cpu.memory = last.pre.memory

\* five rows drawn into the bottom right corner over an earlier sprite
C12_Witness ==
  /\ DrewInBounds /\ DrawVx = 56 /\ DrawVy = 27 /\ OpN(last.opcode) = 5
  /\ last.pre.gfx # Empty /\ Cardinality(DrawIndices) > 5

\* C13: after an in-bounds Dxyn VF = 1 if a set sprite bit landed on a cell
\* that was 1 before the instruction, and VF = 0 otherwise, whatever VF held.
C13_DrawCollisionFlag ==
  DrewInBounds =>
    cpu.registers[15] =
      (IF \E i \in DrawIndices : Cell(last.pre.gfx, i) = 1 THEN 1 ELSE 0)

\* a sprite drawn over set cells, VF neither 0 nor 1 before
C13_Witness ==
  /\ DrewInBounds /\ last.pre.registers[15] = 2 /\ cpu.registers[15] = 1
  /\ \E i \in DrawIndices : Cell(last.pre.gfx, i) = 0

\* C14: Dxyn touches no framebuffer index outside 0..2047, and the state next
\* to the framebuffer (timers but for their update, stack, sp, keypad) is as
\* it was before the draw.
C14_DrawInsideFramebuffer ==
  (RanCycle /\ IsDraw(last.opcode)) =>
    /\ DrawIndices \subseteq 0..GfxDisplaySize - 1
    /\ cpu.delay_timer = Dec(last.pre.delay_timer)
    /\ cpu.sound_timer = Dec(last.pre.sound_timer)
    /\ cpu.stack = last.pre.stack /\ cpu.sp = last.pre.sp /\ cpu.key = last.pre.key

\* C15: 00E0 leaves all 2048 framebuffer cells 0, sets the redraw flag,
\* advances pc by 2 and leaves registers, index, stack, sp and memory as
\* they were.
C15_ClearScreen ==
  (RanCycle /\ last.opcode = 224) =>
    /\ \A i \in 0..GfxDisplaySize - 1 : Cell(cpu.gfx, i) = 0
    /\ cpu.draw_flag
    /\ cpu.pc = last.pre.pc + 2
    /\ cpu.registers = last.pre.registers /\ cpu.index = last.pre.index
    /\ cpu.stack = last.pre.stack /\ cpu.sp = last.pre.sp
    /\ cpu.memory = last.pre.memory

\* a screen with set cells cleared, VF holding a collision
C15_Witness ==
  /\ RanCycle /\ last.opcode = 224
  /\ last.pre.gfx # Empty /\ last.pre.registers[15] = 1 /\ cpu.gfx = Empty
  /\ ~last.pre.draw_flag

\* the last cycle ran 8xyN with x other than F; its operands before it ran
RanAlu(n) ==
  /\ RanCycle /\ OpFamily(last.opcode) = 8 /\ OpN(last.opcode) = n
  /\ OpX(last.opcode) # 15
AluVx == last.pre.registers[OpX(last.opcode)]
AluVy == last.pre.registers[OpY(last.opcode)]
AluResult == cpu.registers[OpX(last.opcode)]
OthersKept(touched) ==
  \A r \in (0..NumRegisters - 1) \ touched : cpu.registers[r] = last.pre.registers[r]

\* C16: for x, y other than F, after 8xy4 Vx = (Vx + Vy) mod 256, VF = 1 if
\* the sum of the operands before the instruction exceeds 255, else 0, and pc
\* has advanced by 2.
C16_AddCarry ==
  (RanAlu(4) /\ OpY(last.opcode) # 15) =>
    /\ AluResult = (AluVx + AluVy) % 256
    /\ cpu.registers[15] = (IF AluVx + AluVy > 255 THEN 1 ELSE 0)
    /\ cpu.pc = last.pre.pc + 2

\* a sum of exactly 256 between two different registers
C16_Witness ==
  /\ RanAlu(4) /\ OpY(last.opcode) \notin {15, OpX(last.opcode)}
  /\ AluVx + AluVy = 256 /\ AluResult = 0 /\ cpu.registers[15] = 1

\* C17: for x, y other than F, after 8xy5 Vx = (Vx - Vy) mod 256, VF = 0 if
\* Vy > Vx before the instruction (borrow), else 1 (Vx = Vy included), and pc
\* has advanced by 2.
C17_SubBorrow ==
  (RanAlu(5) /\ OpY(last.opcode) # 15) =>
    /\ AluResult = (AluVx - AluVy) % 256
    /\ cpu.registers[15] = (IF AluVy > AluVx THEN 0 ELSE 1)
    /\ cpu.pc = last.pre.pc + 2

\* equal nonzero operands in two different registers: no borrow, result 0
C17_Witness ==
  /\ RanAlu(5) /\ OpY(last.opcode) \notin {15, OpX(last.opcode)}
  /\ AluVx = AluVy /\ AluVx > 0 /\ AluResult = 0 /\ cpu.registers[15] = 1

RanSkip ==
  /\ RanCycle
  /\ \/ OpFamily(last.opcode) \in {3, 4}
     \/ OpFamily(last.opcode) \in {5, 9} /\ OpN(last.opcode) = 0
SkipVx == last.pre.registers[OpX(last.opcode)]
SkipVy == last.pre.registers[OpY(last.opcode)]
SkipCondition ==
  CASE OpFamily(last.opcode) = 3 -> SkipVx = OpNN(last.opcode)
    [] OpFamily(last.opcode) = 4 -> SkipVx # OpNN(last.opcode)
    [] OpFamily(last.opcode) = 5 -> SkipVx = SkipVy
    [] OTHER -> SkipVx # SkipVy

\* C21: 3xnn (Vx = nn), 4xnn (Vx # nn), 5xy0 (Vx = Vy) and 9xy0 (Vx # Vy)
\* advance pc by 4 when their condition holds and by 2 when it does not, and
\* leave registers, index, stack, memory and framebuffer as they were.
C21_ConditionalSkips ==
  RanSkip =>
    /\ cpu.pc = last.pre.pc + (IF SkipCondition THEN 4 ELSE 2)
    /\ cpu.registers = last.pre.registers
    /\ cpu.index = last.pre.index
    /\ cpu.stack = last.pre.stack /\ cpu.sp = last.pre.sp
    /\ cpu.memory = last.pre.memory
    /\ cpu.gfx = last.pre.gfx

\* 9xy0 skipped over two different registers that hold different values
C21_Witness ==
  /\ RanSkip /\ OpFamily(last.opcode) = 9
  /\ OpX(last.opcode) # OpY(last.opcode) /\ SkipVx = 255 /\ SkipVy = 1
  /\ cpu.pc = last.pre.pc + 4

\* this step is a call of chip8Cycle that runs Ex9E (n = 14) or ExA1 (n = 1)
\* with Vx a key number
RunsSkipKey(n) ==
  /\ cycleCount' = cycleCount + 1 /\ last'.step = "cycle" /\ last'.pre = cpu
  /\ OpFamily(last'.opcode) = 14 /\ OpN(last'.opcode) = n
  /\ cpu.registers[OpX(last'.opcode)] < MaxNumKeys
SkipKeyDown == cpu.key[cpu.registers[OpX(last'.opcode)]] # 0
SkipKeyTwin(nn) == \HE000 + 256 * OpX(last'.opcode) + nn

\* C22: for Vx in 0..15, Ex9E advances pc by 4 if key[Vx] is nonzero and by
\* 2 otherwise, ExA1 advances pc by 4 if key[Vx] is zero and by 2 otherwise,
\* so from one state exactly one of the two skips; neither changes the keypad
\* or a register.
C22_KeySkips ==
  [][/\ RunsSkipKey(14) =>
          /\ cpu'.pc = cpu.pc + (IF SkipKeyDown THEN 4 ELSE 2)
          /\ (cpu'.pc = cpu.pc + 4)
               # (opcodeEX9E_SkipIfKeyNotPressed(cpu, SkipKeyTwin(\HA1), NoUB).pc
                    = cpu.pc + 4)
     /\ RunsSkipKey(1) =>
          /\ cpu'.pc = cpu.pc + (IF SkipKeyDown THEN 2 ELSE 4)
          /\ (cpu'.pc = cpu.pc + 4)
               # (opcodeEX9E_SkipIfKeyPressed(cpu, SkipKeyTwin(\H9E), NoUB).pc
                    = cpu.pc + 4)
     /\ (RunsSkipKey(14) \/ RunsSkipKey(1)) =>
          cpu'.key = cpu.key /\ cpu'.registers = cpu.registers]_vars

\* E29E skipped with V2 = 10 while key 10 was down and key 2 was up
C22_Witness ==
  /\ RanCycle /\ last.opcode = \HE29E
  /\ last.pre.registers[2] = 10 /\ last.pre.key[10] # 0 /\ last.pre.key[2] = 0
  /\ cpu.pc = last.pre.pc + 4

\* C23: after Bnnn pc = V0 + nnn for every V0 in 0..255 and nnn in 0..0xFFF,
\* sums above 0xFFF included, and stack, sp and all registers are unchanged.
C23_JumpToAddr ==
  (RanCycle /\ OpFamily(last.opcode) = 11) =>
    /\ cpu.pc = last.pre.registers[0] + OpNNN(last.opcode)
    /\ cpu.stack = last.pre.stack /\ cpu.sp = last.pre.sp
    /\ cpu.registers = last.pre.registers

\* the last cycle ran Fx55 (nn = 0x55) or Fx65 (nn = 0x65) with index + x
\* inside memory
RanDumpOrLoad(nn) ==
  /\ RanCycle /\ IsFx(last.opcode, nn)
  /\ last.pre.index + OpX(last.opcode) <= MaxMemory - 1
DumpRange == {last.pre.index + i : i \in 0..OpX(last.opcode)}

\* C24: for any x, register values and index with index + x <= 4095, Fx55
\* copies V0..Vx into memory[index..index+x] and changes no other memory byte;
\* a following Fx65 at the same index loads exactly those values back into
\* V0..Vx and leaves V(x+1)..VF untouched; neither changes index.
C24_DumpLoadRoundTrip ==
  /\ RanDumpOrLoad(\H55) =>
       /\ \A i \in 0..OpX(last.opcode) :
            Cell(cpu.memory, last.pre.index + i) = last.pre.registers[i]
       /\ \A a \in ((DOMAIN cpu.memory) \cup (DOMAIN last.pre.memory)) \ DumpRange :
            Cell(cpu.memory, a) = Cell(last.pre.memory, a)
       /\ cpu.index = last.pre.index
  /\ (/\ RanDumpOrLoad(\H65) /\ last.dump.valid
      /\ last.dump.x = OpX(last.opcode) /\ last.dump.index = last.pre.index) =>
       /\ \A i \in 0..OpX(last.opcode) : cpu.registers[i] = last.dump.registers[i]
       /\ \A r \in OpX(last.opcode) + 1..NumRegisters - 1 :
            cpu.registers[r] = last.pre.registers[r]
       /\ cpu.index = last.pre.index

\* F165 at index 0xFFE brought 7 and 255 back over 0xEE and left V2 = 0xEE
C24_Witness ==
  /\ RanDumpOrLoad(\H65) /\ last.dump.valid /\ OpX(last.opcode) = 1
  /\ last.dump.x = 1 /\ last.dump.index = \HFFE /\ last.pre.index = \HFFE
  /\ last.pre.registers[0] = \HEE /\ last.pre.registers[1] = \HEE
  /\ cpu.registers[0] = 7 /\ cpu.registers[1] = 255 /\ cpu.registers[2] = \HEE

\* the last cycle ran Fx33 with index + 2 inside memory
RanBCD ==
  /\ RanCycle /\ IsFx(last.opcode, \H33) /\ last.pre.index + 2 <= MaxMemory - 1
BCDVx == last.pre.registers[OpX(last.opcode)]

GlyphOf(d) == [i \in 0..4 |-> chip8_fontset[5 * d + i + 1]]

\* C26: after Fx29 with Vx = d in 0..15, index addresses the sprite of glyph
\* d: memory[index..index+4] are the five font bytes of digit d as loaded by
\* initialization; pc has advanced by 2.
C26_SpriteAddr ==
  (RanCycle /\ IsFx(last.opcode, \H29)
     /\ last.pre.registers[OpX(last.opcode)] < 16) =>
    /\ \A i \in 0..4 :
         Cell(cpu.memory, cpu.index + i)
           = GlyphOf(last.pre.registers[OpX(last.opcode)])[i]
    /\ cpu.pc = last.pre.pc + 2

\* C27: for every x other than F and all byte values, after 7xnn
\* Vx = (Vx + nn) mod 256 and VF and every other register keep their values,
\* also when the sum exceeds 255; pc has advanced by 2.
C27_AddImmediate ==
  (RanCycle /\ OpFamily(last.opcode) = 7 /\ OpX(last.opcode) # 15) =>
    /\ cpu.registers[OpX(last.opcode)]
         = (last.pre.registers[OpX(last.opcode)] + OpNN(last.opcode)) % 256
    /\ OthersKept({OpX(last.opcode)})
    /\ cpu.pc = last.pre.pc + 2

\* 200 + 56 wrapped to 0 in VE while VF kept 9
C27_Witness ==
  /\ RanCycle /\ last.opcode = \H7E38 /\ last.pre.registers[14] = 200
  /\ last.pre.registers[15] = 9
  /\ cpu.registers[14] = 0 /\ cpu.registers[15] = 9

\* chip8LoadRom was the last step, called with a file; whether it reported an
\* error: it returns void and throws nothing
LoadedFile == last.step = "load" /\ last.pre # ZeroCpu
LoadReportedError == FALSE
RomRoom == MaxMemory - PROGRAM_OFFSET

\* C28: chip8LoadRom given a ROM of more than 3584 bytes fails: it reports
\* the error and leaves memory and every other state component unchanged.
C28_LoadTooLargeFails ==
  (LoadedFile /\ Len(last.rom) > RomRoom) =>
    LoadReportedError /\ cpu = last.pre

\* C29: chip8LoadRom given n <= 3584 bytes makes memory[0x200 + i] the ROM
\* byte i for i < n and leaves memory below 0x200 (the font included), memory
\* from 0x200 + n upward, pc, registers, stack, timers and framebuffer
\* unchanged.
C29_LoadCopiesRom ==
  (LoadedFile /\ Len(last.rom) <= RomRoom) =>
    /\ \A i \in 0..Len(last.rom) - 1 :
         Cell(cpu.memory, PROGRAM_OFFSET + i) = last.rom[i + 1]
    /\ \A a \in (DOMAIN cpu.memory) \cup (DOMAIN last.pre.memory) :
         (a < PROGRAM_OFFSET \/ a >= PROGRAM_OFFSET + Len(last.rom)) =>
           Cell(cpu.memory, a) = Cell(last.pre.memory, a)
    /\ cpu.pc = last.pre.pc /\ cpu.registers = last.pre.registers
    /\ cpu.stack = last.pre.stack /\ cpu.sp = last.pre.sp
    /\ cpu.delay_timer = last.pre.delay_timer
    /\ cpu.sound_timer = last.pre.sound_timer
    /\ cpu.gfx = last.pre.gfx

\* a file of exactly 3584 bytes filled memory up to its last byte, under the
\* font
C29_Witness ==
  /\ LoadedFile /\ Len(last.rom) = RomRoom
  /\ Cell(cpu.memory, MaxMemory - 1) = last.rom[RomRoom]
  /\ last.rom[RomRoom] # 0
  /\ Cell(cpu.memory, FONT_MEMORY_OFFSET) = chip8_fontset[1]
  /\ cpu.pc = PROGRAM_OFFSET

IsEven(n) == n % 2 = 0

\* the word of the last cycle sets pc from an odd value: a jump or a call to
\* an odd nnn, Bnnn with V0 + nnn odd, or a return to an entry of the stack
\* that is odd or lies outside the stack
OddTransfer ==
  \/ OpFamily(last.opcode) \in {1, 2} /\ ~IsEven(OpNNN(last.opcode))
  \/ OpFamily(last.opcode) = 11
       /\ ~IsEven(last.pre.registers[0] + OpNNN(last.opcode))
  \/ IsReturn(last.opcode)
       /\ \/ last.pre.sp \notin 1..MaxStackSize
          \/ ~IsEven(last.pre.stack[last.pre.sp - 1])

\* the word of the last cycle stores through index past the end of memory
StoresPastMemory ==
  \/ IsFx(last.opcode, \H33) /\ last.pre.index + 2 > MaxMemory - 1
  \/ IsFx(last.opcode, \H55) /\ last.pre.index + OpX(last.opcode) > MaxMemory - 1

\* C30, as stated: in every state reachable from initialization by executing
\* cycles of any program, pc is even.
C30_PcEven == IsEven(cpu.pc)

\* C30, amended: a cycle that starts at an even pc ends at an even pc unless
\* its word transfers control to an odd address (1nnn or 2nnn with odd nnn,
\* Bnnn with V0 + nnn odd, 00EE returning to an odd or missing stack entry)
\* or stores through index past the end of memory.
C30_PcEvenUnlessOddTransfer ==
  (Fetched /\ IsEven(last.pre.pc) /\ ~OddTransfer /\ ~StoresPastMemory) =>
    IsEven(cpu.pc)

\* a jump from 0x200 to the even address 0x204
C30_Witness ==
  /\ RanCycle /\ last.opcode = \H1204 /\ last.pre.pc = PROGRAM_OFFSET
  /\ cpu.pc = \H204

\* every framebuffer cell of the machine c is 0 or 1
BinaryCells(c) == \A i \in DOMAIN c.gfx : c.gfx[i] \in {0, 1}

\* C31: in every state reachable from initialization by executing cycles of
\* any program whose draws stay inside the display, each of the 2048
\* framebuffer cells is 0 or 1: a cycle that is not a draw outside the
\* display takes a framebuffer of such cells to one of such cells.
C31_FramebufferCellsBinary ==
  (Fetched /\ BinaryCells(last.pre) /\ (IsDraw(last.opcode) => DrewInBounds)) =>
    BinaryCells(cpu)

\* the memory addresses the last cycle read or wrote: the two bytes of the
\* fetch, the sprite rows of Dxyn, the digits of Fx33, the block of Fx55, Fx65
MemoryAccesses ==
  {last.pre.pc, last.pre.pc + 1}
    \cup (IF IsDraw(last.opcode)
          THEN {last.pre.index + r : r \in 0..OpN(last.opcode) - 1} ELSE {})
    \cup (IF IsFx(last.opcode, \H33) THEN {last.pre.index + i : i \in 0..2} ELSE {})
    \cup (IF IsFx(last.opcode, \H55) \/ IsFx(last.opcode, \H65)
          THEN {last.pre.index + i : i \in 0..OpX(last.opcode)} ELSE {})

\* C32: for every reachable pc and index, instruction fetch, Dxyn, Fx33,
\* Fx55 and Fx65 never access a memory address above 4095.
C32_MemoryAccessInBounds ==
  Fetched => \A a \in MemoryAccesses : a <= MaxMemory - 1

\* C33: subroutine return as test::subroutineReturn states it: after a cycle
\* executing 00EE with sp = s >= 1 and the return address a in stack[s],
\* sp = s - 1 and pc = a.
C33_ReturnAsTested ==
  (RanCycle /\ IsReturn(last.opcode) /\ last.pre.sp \in 1..MaxStackSize - 1) =>
    /\ cpu.sp = last.pre.sp - 1
    /\ cpu.pc = last.pre.stack[last.pre.sp]

\* C34: shift-left as test::RegShiftLeft states it: after a cycle executing
\* 8xyE with Vx = 0xFF, Vx = 0xFE and VF = 0xF; with Vx = 0x0B, Vx = 0x16 and
\* VF = 0.
C34_ShiftLeftAsTested ==
  /\ (RanAlu(14) /\ AluVx = \HFF) => AluResult = \HFE /\ cpu.registers[15] = \HF
  /\ (RanAlu(14) /\ AluVx = \H0B) => AluResult = \H16 /\ cpu.registers[15] = 0

\* the word of the last cycle sets the redraw flag: Dxyn, or a word of
\* family 0 that the switch takes for 00E0
SetsRedraw(opcode) ==
  IsDraw(opcode) \/ (OpFamily(opcode) = 0 /\ OpN(opcode) = 0)
AtCycleStart == cyclePc = "idle" /\ last.step \in {"load", "checked", "shown"}

\* C35: in the driving loop, every cycle that sets the redraw flag is
\* followed by exactly one render of the framebuffer and then a clear of the
\* flag before the next cycle starts; the renderer never writes the
\* framebuffer, and the redraw flag is false at the start of every cycle.
C35_RenderAfterRedraw ==
  /\ [](AtCycleStart => ~cpu.draw_flag)
  /\ [][/\ (last.step = "cycle" /\ SetsRedraw(last.opcode)) =>
             /\ cpu.draw_flag
             /\ last'.step = "render" /\ cpu' = cpu
        /\ (last.step = "render") =>
             /\ last'.step = "shown"
             /\ cpu' = [cpu EXCEPT !.draw_flag = FALSE]
        /\ (last.step = "shown") => last'.step \in {"cycle", "unknown", "wait"}
       ]_vars

\* a frame with set cells was rendered and the flag cleared; the next cycle
\* can start
C35_Witness ==
  /\ AtCycleStart /\ last.step = "shown" /\ IsDraw(last.opcode)
  /\ cpu.gfx # Empty /\ ~cpu.draw_flag /\ cycleCount >= 4

\* the word at pc, inside memory, is one chip8Cycle reports unknown, and
\* this step is a call of chip8Cycle
UnknownAtPc ==
  /\ cpu.pc + 1 <= MaxMemory - 1
  /\ ReportsUnknown(Fetch(cpu, NoUB))
RunsCycle ==
  /\ cyclePc = "idle"
  /\ last'.step \in {"cycle", "unknown", "wait"} /\ last'.pre = cpu

\* C36: if the instruction word at pc is one that chip8Cycle reports as
\* unknown, then that cycle and every later cycle leave the whole machine
\* state unchanged (pc never advances and no further instruction is ever
\* executed), as long as memory is not modified from outside.
C36_UnknownWordHalts ==
  /\ [](last.step = "unknown" => (cpu = last.pre /\ UnknownAtPc))
  /\ [][(UnknownAtPc /\ RunsCycle) =>
          /\ cpu' = cpu /\ cycleCount' = cycleCount
          /\ last'.step = "unknown"]_vars

\* 8128 reported unknown after two instructions had run
C36_Witness ==
  /\ last.step = "unknown" /\ last.opcode = \H8128 /\ cycleCount >= 2
  /\ cpu = last.pre /\ cpu.pc > PROGRAM_OFFSET

\* the last cycle drew in bounds with x, y other than F, and this step is a
\* cycle that runs the same word on the same Vx, Vy, index and sprite bytes
DrawsAgain ==
  /\ DrewInBounds /\ OpX(last.opcode) # 15 /\ OpY(last.opcode) # 15
  /\ RunsCycle /\ last'.step = "cycle" /\ last'.opcode = last.opcode
  /\ cpu.registers[OpX(last.opcode)] = DrawVx
  /\ cpu.registers[OpY(last.opcode)] = DrawVy
  /\ cpu.index = last.pre.index
  /\ \A r \in 0..OpN(last.opcode) - 1 :
       Cell(cpu.memory, cpu.index + r) = Cell(last.pre.memory, cpu.index + r)

\* C37: executing the same in-bounds Dxyn twice in a row (x, y other than F;
\* same Vx, Vy, n, index and sprite bytes) restores the framebuffer to exactly
\* its contents before the first draw, and the second draw sets VF = 1
\* whenever the sprite has at least one set bit.
C37_DrawTwiceRestores ==
  [][DrawsAgain =>
       /\ cpu'.gfx = last.pre.gfx
       /\ (DrawIndices # {}) => cpu'.registers[15] = 1]_vars

\* the set sprite bits that land on a cell that was clear before the first draw
DrawnOnClear == {i \in DrawIndices : Cell(last.pre.gfx, i) = 0}

\* C37, amended: executing the same in-bounds Dxyn twice in a row (x, y other
\* than F; same Vx, Vy, n, index and sprite bytes) restores the framebuffer to
\* exactly its contents before the first draw, and the second draw sets VF = 1
\* whenever some set sprite bit lands on a cell that was clear before the
\* first draw.
C37_DrawTwiceRestoresFlagOnClear ==
  [][DrawsAgain =>
       /\ cpu'.gfx = last.pre.gfx
       /\ (DrawnOnClear # {}) => cpu'.registers[15] = 1]_vars

\* the second of two equal draws of five rows took the sprite off again and
\* left the cells of an earlier draw
C37_Witness ==
  /\ DrewInBounds /\ OpN(last.opcode) = 5 /\ DrawIndices # {}
  /\ Cell(last.pre.memory, last.pre.pc - 2) * 256
       + Cell(last.pre.memory, last.pre.pc - 1) = last.opcode
  /\ cpu.registers[15] = 1 /\ cpu.gfx # Empty /\ cpu.gfx # last.pre.gfx

\* the last cycle ran one of 8xy4, 8xy5, 8xy6, 8xy7, 8xyE, for any x and y
RanFlagOp ==
  /\ RanCycle /\ OpFamily(last.opcode) = 8
  /\ OpN(last.opcode) \in {4, 5, 6, 7, 14}

\* the flag value of that instruction, from the operands before it
FlagValue ==
  CASE OpN(last.opcode) = 4 -> IF AluVx + AluVy > 255 THEN 1 ELSE 0
    [] OpN(last.opcode) = 5 -> IF AluVy > AluVx THEN 0 ELSE 1
    [] OpN(last.opcode) = 6 -> AluVx % 2
    [] OpN(last.opcode) = 7 -> IF AluVx > AluVy THEN 0 ELSE 1
    [] OTHER -> AluVx \div 128

\* C38: after any of 8xy4, 8xy5, 8xy6, 8xy7 and 8xyE, for every x and y
\* including x = F, VF holds the flag value of that instruction and is
\* therefore 0 or 1.
C38_FlagInVF ==
  RanFlagOp => cpu.registers[15] = FlagValue /\ cpu.registers[15] \in {0, 1}

\* C39: for 8xy4, 8xy5 and 8xy7 with y = F and x other than F, the result
\* stored in Vx is computed from the value VF held before the instruction
\* (8xF4 gives Vx = (Vx + old VF) mod 256), not from the flag written by the
\* same instruction.
C39_ResultFromOldVF ==
  /\ (RanAlu(4) /\ OpY(last.opcode) = 15) => AluResult = (AluVx + AluVy) % 256
  /\ (RanAlu(5) /\ OpY(last.opcode) = 15) => AluResult = (AluVx - AluVy) % 256
  /\ (RanAlu(7) /\ OpY(last.opcode) = 15) => AluResult = (AluVy - AluVx) % 256

\* the last cycle drew a sprite that crosses the right edge and whose set
\* bits all land inside the framebuffer
DrewAcrossEdge ==
  /\ RanCycle /\ IsDraw(last.opcode)
  /\ DrawVx + 7 >= GfxDisplayWidth
  /\ \A i \in DrawIndices : i < GfxDisplaySize
  /\ last.pre.index + OpN(last.opcode) <= MaxMemory

\* C40: for Dxyn with Vx + 7 >= 64 and all touched indices below 2048, a set
\* sprite bit whose column Vx + b exceeds 63 is XORed into the cell at column
\* Vx + b - 64 of the following row (framebuffer index Vx + b + (Vy + r) * 64);
\* it is neither clipped nor wrapped onto the same row.
C40_SpillsToNextRow ==
  DrewAcrossEdge =>
    \A r \in 0..OpN(last.opcode) - 1 : \A b \in 0..7 :
      (SpriteBit(r, b) = 1 /\ DrawVx + b > GfxDisplayWidth - 1) =>
        LET i == DrawVx + b + (DrawVy + r) * GfxDisplayWidth
            w == DrawVx + b - GfxDisplayWidth + (DrawVy + r) * GfxDisplayWidth
        IN  /\ Cell(cpu.gfx, i) = BitXor(Cell(last.pre.gfx, i), 1)
            /\ (DrawVx + b < 2 * GfxDisplayWidth) =>
                 /\ i % GfxDisplayWidth = DrawVx + b - GfxDisplayWidth
                 /\ i \div GfxDisplayWidth = DrawVy + r + 1
            /\ (w \notin DrawIndices) => Cell(cpu.gfx, w) = Cell(last.pre.gfx, w)

\* a sprite drawn at column 60 lit a cell in columns 0..3 of the row below
\* and left the same columns of its own row dark
C40_Witness ==
  /\ DrewAcrossEdge /\ DrawVx = 60
  /\ \E r \in 0..OpN(last.opcode) - 1 : \E b \in 4..7 :
       /\ SpriteBit(r, b) = 1
       /\ Cell(cpu.gfx, b - 4 + (DrawVy + r + 1) * GfxDisplayWidth) = 1
       /\ Cell(cpu.gfx, b - 4 + (DrawVy + r) * GfxDisplayWidth) = 0

====
